---- MODULE Spec2Model ----
(***************************************************************************)
(* Model of the telegram relay (src/main.py): chat-reference resolution,   *)
(* chunked delivery with the formatting-fallback retry, multi-target       *)
(* fan-out and the POST / handler that drives them (Spec, SpecSend); the   *)
(* chat registry with its lock and its file (SpecRegistry); and            *)
(* extract_text (SpecExtract).                                             *)
(*                                                                         *)
(* Python strings are sequences of one-character strings, so that strip(), *)
(* isdigit(), startswith(), lower() and the substring test `k in s` are    *)
(* computed rather than assumed.  A message text is identified with its    *)
(* length; the slice text[i:j] is the pair of positions it covers.         *)
(***************************************************************************)
EXTENDS Integers, Sequences, FiniteSets, TLC

\* ------------------------------------------------------------------------
\* Python values
\* ------------------------------------------------------------------------

\* Python's None where a string is expected: no Python string equals it,
\* since the strings of the model hold one character per element.
None == <<"None">>

\* bool(x) of an Optional[str]
Truthy(x) == x # None /\ x # <<>>

\* `a or b`
Or(a, b) == IF Truthy(a) THEN a ELSE b

Min(a, b) == IF a <= b THEN a ELSE b

WhiteSpace == {" "}
DigitChars == {"0", "1", "2", "3", "4", "5", "6", "7", "8", "9"}
UpperChars == <<"A", "B", "C", "D", "E", "F", "G", "H", "I", "J", "K", "L", "M",
                "N", "O", "P", "Q", "R", "S", "T", "U", "V", "W", "X", "Y", "Z">>
LowerChars == <<"a", "b", "c", "d", "e", "f", "g", "h", "i", "j", "k", "l", "m",
                "n", "o", "p", "q", "r", "s", "t", "u", "v", "w", "x", "y", "z">>

\* str.lstrip() / str.rstrip() / str.strip()
RECURSIVE lstrip(_)
lstrip(s) == IF s # <<>> /\ Head(s) \in WhiteSpace THEN lstrip(Tail(s)) ELSE s

RECURSIVE rstrip(_)
rstrip(s) ==
  IF s # <<>> /\ s[Len(s)] \in WhiteSpace THEN rstrip(SubSeq(s, 1, Len(s) - 1)) ELSE s

strip(s) == rstrip(lstrip(s))

\* str.isdigit(): non-empty and every character a digit
isdigit(s) == s # <<>> /\ \A k \in 1..Len(s) : s[k] \in DigitChars

\* str.startswith(c) for a one-character prefix
startswith(s, c) == s # <<>> /\ s[1] = c

\* str.lower()
lowerChar(c) ==
  IF \E k \in 1..Len(UpperChars) : UpperChars[k] = c
  THEN LowerChars[CHOOSE k \in 1..Len(UpperChars) : UpperChars[k] = c]
  ELSE c

lower(s) == [k \in 1..Len(s) |-> lowerChar(s[k])]

\* `k in s` for strings: k occurs in s as a contiguous substring
contains(s, k) ==
  \E p \in 0..(Len(s) - Len(k)) : \A q \in 1..Len(k) : s[p + q] = k[q]

\* str(n) for an integer n
digitOf(d) == <<"0", "1", "2", "3", "4", "5", "6", "7", "8", "9">>[d + 1]

RECURSIVE natStr(_)
natStr(n) == IF n < 10 THEN <<digitOf(n)>> ELSE natStr(n \div 10) \o <<digitOf(n % 10)>>

intStr(n) == IF n < 0 THEN <<"-">> \o natStr(0 - n) ELSE natStr(n)

\* dict.get(key, default) on a JSON object held as a record
Get(j, key, default) == IF key \in DOMAIN j THEN j[key] ELSE default


\* ------------------------------------------------------------------------
\* Bounds and the values requests are drawn from
\* ------------------------------------------------------------------------

\* send_telegram: MAX = 4000 (characters per chunk)
MAX == 4000

\* the longest text spans MaxChunks chunks
MaxChunks == 2

\* the registry holds at most MaxChats chat ids
MaxChats == 1

\* calls of ChatRegistry.add / ChatRegistry.remove, each on a thread of its own
MaxCalls == 2

\* the clock runs from 1 to MaxClock
MaxClock == 2

\* Lengths of the texts: empty, one character, whole chunks, and whole
\* chunks followed by a 1000-character remainder (5000 = 4000 + 1000).
TextLens ==
  {0, 1} \cup {c * MAX : c \in 1..MaxChunks}
         \cup {c * MAX + 1000 : c \in 1..(MaxChunks - 1)}

Str123 == <<"1", "2", "3">>
StrNeg == <<"-", "1", "0", "0", "9", "9", "9", "9">>
StrChan == <<"@", "c", "h", "a", "n">>
StrPlus == <<"+", "1", "2">>
StrBlank == <<" ">>
Str555 == <<"5", "5", "5">>

HTML == <<"H", "T", "M", "L">>
Markdown == <<"M", "a", "r", "k", "d", "o", "w", "n">>
MarkdownV2 == Markdown \o <<"V", "2">>
StrXml == <<"x", "m", "l">>

\* ------------------------------------------------------------------------
\* State
\* ------------------------------------------------------------------------

VARIABLES
  BOT_TOKEN,               \* bool(BOT_TOKEN): the credential is configured
  DEFAULT_CHAT_ID,         \* CHAT_ID, stripped
  SECOND_DEFAULT_CHAT_ID,  \* CHAT_IDD, stripped
  DEFAULT_PARSE_MODE,      \* DEFAULT_PARSE_MODE, stripped
  STRICT_CHAT_ID,
  BROADCAST_DEFAULT,
  chats,                   \* keys of registry._data["chats"], insertion order
  pc,                      \* position of the request the event loop is running
  entry,                   \* "single" | "many" | "direct": who called send_telegram
  status,                  \* "broadcast" | "sent_to_defaults" of a fan-out
  text,                    \* len(text) of the text being delivered
  chat_id_ref,             \* handle: chat_id_ref / send_telegram argument
  parse_mode,              \* handle: parse_mode / send_telegram argument
  targets,                 \* send_to_many: chat_ids
  t,                       \* send_to_many: position of cid in chat_ids
  results,                 \* send_to_many: results
  chat_id,                 \* send_telegram: chat_id
  i,                       \* send_telegram: i
  params,                  \* send_telegram: params
  j1,                      \* send_telegram: j1
  calls,                   \* requests made upstream by the current send_telegram
  deliveries,              \* per send_telegram call of the request: whether upstream
                           \* took the whole text, and what the call raised
  response,                \* what the last request answered
  _data,                   \* registry._data["chats"]: chat id -> record
  _lock,                   \* registry._lock: the call that holds it, or 0
  fs,                      \* the files at self.path and at self.path + ".tmp"
  clock,                   \* int(time.time())
  th,                      \* the calls of ChatRegistry.add / remove, one per thread
  saved,                   \* the stores json.dump has begun to write out
  data,                    \* extract_text: the document it is called with
  extracted                \* extract_text: what it returned

cfg == <<BOT_TOKEN, DEFAULT_CHAT_ID, SECOND_DEFAULT_CHAT_ID, DEFAULT_PARSE_MODE,
         STRICT_CHAT_ID, BROADCAST_DEFAULT>>

frame == <<chat_id, i, params, j1>>

registry == <<_data, _lock, fs, clock, th, saved>>

extraction == <<data, extracted>>

vars == <<cfg, registry, extraction, chats, pc, entry, status, text, chat_id_ref, parse_mode, targets, t,
          results, frame, calls, deliveries, response>>

\* TELEGRAM_BASE = f"https://api.telegram.org/bot{BOT_TOKEN}" if BOT_TOKEN else None
TELEGRAM_BASE == BOT_TOKEN

\* ------------------------------------------------------------------------
\* Texts and slices
\* ------------------------------------------------------------------------

\* len("(empty message)")
PlaceholderLen == 15

\* A text is known by what it is and how long it is.
Text(n) == [id |-> "text", len |-> n]
Placeholder == [id |-> "(empty message)", len |-> PlaceholderLen]

\* text[a:b]: the positions a..b-1 that exist in the text
slice(txt, a, b) == [of |-> txt.id, lo |-> Min(a, txt.len), hi |-> Min(b, txt.len)]

\* a text handed on as it came
safe_text_raw(txt) == txt

\* safe_text = text or "(empty message)"
safe_text(txt) == IF txt.len = 0 THEN Placeholder ELSE txt

\* ------------------------------------------------------------------------
\* The upstream API: what requests.post / requests.get can come back with
\* ------------------------------------------------------------------------

\* requests.RequestException: timeout or connection failure
NetError == [net |-> "error"]
\* an HTTP response whose body is JSON
JsonReply(http, value) == [net |-> "ok", http |-> http, json |-> TRUE, body |-> value]
\* an HTTP response whose body is not JSON
TextReply(http, raw) == [net |-> "ok", http |-> http, json |-> FALSE, body |-> raw]

\* a JSON body that is not an object (a list, a number): it has no .get
NonObject == [nonobject |-> TRUE]
IsDict(j) == "nonobject" \notin DOMAIN j

DescParse == <<"c", "a", "n", "'", "t", " ", "P", "a", "r", "s", "e">>
DescNoChat == <<"c", "h", "a", "t", " ", "n", "o", "t", " ", "f", "o", "u", "n", "d">>
RawHtmlPage == <<"<", "H", "T", "M", "L", ">", "5", "0", "2">>
RawPlain == <<"B", "a", "d", " ", "G", "a", "t", "e", "w", "a", "y">>

\* id of the chat a handle resolves to
ChanId == 0 - 1005

\* what sendMessage can come back with
ReplyOk == JsonReply(200, [ok |-> TRUE, result |-> [message_id |-> 1]])
ReplyCantParse == JsonReply(400, [ok |-> FALSE, error_code |-> 400, description |-> DescParse])
ReplyNoChat == JsonReply(400, [ok |-> FALSE, error_code |-> 400, description |-> DescNoChat])
ReplyHtmlPage == TextReply(502, RawHtmlPage)
ReplyNonObject == JsonReply(200, NonObject)

SendReplies ==
  <<ReplyOk, ReplyCantParse, ReplyNoChat, ReplyHtmlPage, ReplyNonObject, NetError>>

\* what getChat can come back with
ReplyChat == JsonReply(200, [ok |-> TRUE, result |-> [id |-> ChanId, type |-> "channel"]])
ReplyNoId == JsonReply(200, [ok |-> TRUE, result |-> [type |-> "channel"]])
ReplyNoResult == JsonReply(200, [ok |-> TRUE, result |-> NonObject])
ReplyPlain == TextReply(502, RawPlain)

GetChatReplies ==
  <<ReplyChat, ReplyNoId, ReplyNoResult, ReplyNoChat, ReplyPlain, ReplyNonObject, NetError>>

\* ------------------------------------------------------------------------
\* Exceptions and results
\* ------------------------------------------------------------------------

NoExc == [type |-> "none"]
HTTPException(code, detail) == [type |-> "HTTPException", status_code |-> code, detail |-> detail]
\* 'list' object has no attribute 'get'
AttributeError == [type |-> "AttributeError"]

\* a detail that is a plain message
Msg(m) == [msg |-> m]

MissingChatId == Msg("Missing chat_id (no CHAT_ID env, no chat_id in payload, and no saved chats).")
StrictViolation == Msg("CHAT_ID must be numeric in STRICT mode")
InvalidReference == Msg("CHAT_ID must be numeric (e.g., 123456789 or -100xxxxxxxxxxxx). For public channels/groups you may use '@name' and it will be resolved.")
NotReady == Msg("Service not ready: BOT_TOKEN missing")
RequestError == Msg("Telegram request error")
NoTarget == Msg("No chat_id provided, no default CHAT_ID/CHAT_IDD, and no saved chats to broadcast.")

\* the value "ok" of results[cid]
StrOk == <<"o", "k">>
IsOk(v) == StrOk = v

\* ------------------------------------------------------------------------
\* Pure functions of src/main.py
\* ------------------------------------------------------------------------

\* a test that forgets the sign
_is_numeric_chat_id_unsigned(x) == isdigit(x)

_is_numeric_chat_id(x) ==
  IF x = <<>> THEN FALSE
  ELSE IF startswith(x, "-") THEN isdigit(Tail(x))
  ELSE isdigit(x)

\* a call that hands a network failure back as a failed response, the
\* text of the exception as its description
_telegram_call_soft(reply) ==
  IF ~TELEGRAM_BASE THEN [exc |-> HTTPException(503, NotReady), j |-> NonObject]
  ELSE IF reply.net = "error"
    THEN [exc |-> NoExc, j |-> [ok |-> FALSE, description |-> DescParse]]
  ELSE IF ~reply.json
    THEN [exc |-> NoExc, j |-> [ok |-> FALSE, http_status |-> reply.http, raw |-> reply.body]]
  ELSE [exc |-> NoExc, j |-> reply.body]

\* _telegram_call / _telegram_get once the request has come back with
\* `reply`: the exception raised, or the JSON returned.
_telegram_call(reply) ==
  IF ~TELEGRAM_BASE THEN [exc |-> HTTPException(503, NotReady), j |-> NonObject]
  ELSE IF reply.net = "error" THEN [exc |-> HTTPException(502, RequestError), j |-> NonObject]
  ELSE IF ~reply.json
    THEN [exc |-> NoExc, j |-> [ok |-> FALSE, http_status |-> reply.http, raw |-> reply.body]]
  ELSE [exc |-> NoExc, j |-> reply.body]

\* a resolver that looks an @handle up before it asks for strict mode
resolve_chat_id_lookup_first(chat_ref) ==
  LET ref == strip(Or(Or(chat_ref, DEFAULT_CHAT_ID), <<>>)) IN
  IF ~Truthy(ref) THEN [act |-> "raise", exc |-> HTTPException(400, MissingChatId)]
  ELSE IF _is_numeric_chat_id(ref) THEN [act |-> "return", chat_id |-> ref]
  ELSE IF startswith(ref, "@") THEN [act |-> "getChat", ref |-> ref]
  ELSE IF STRICT_CHAT_ID THEN [act |-> "raise", exc |-> HTTPException(400, StrictViolation)]
  ELSE [act |-> "raise", exc |-> HTTPException(400, InvalidReference)]

\* resolve_chat_id up to its network call: the id returned, the exception
\* raised, or the handle to look up.
resolve_chat_id(chat_ref) ==
  LET ref == strip(Or(Or(chat_ref, DEFAULT_CHAT_ID), <<>>)) IN
  IF ~Truthy(ref) THEN [act |-> "raise", exc |-> HTTPException(400, MissingChatId)]
  ELSE IF _is_numeric_chat_id(ref) THEN [act |-> "return", chat_id |-> ref]
  ELSE IF STRICT_CHAT_ID THEN [act |-> "raise", exc |-> HTTPException(400, StrictViolation)]
  ELSE IF startswith(ref, "@") THEN [act |-> "getChat", ref |-> ref]
  ELSE [act |-> "raise", exc |-> HTTPException(400, InvalidReference)]

\* a resolver that hands the handle back in place of the id it found
resolve_looked_up_handle(ref, j) ==
  IF ~IsDict(j) THEN [act |-> "raise", exc |-> AttributeError]
  ELSE IF Get(j, "ok", FALSE) /\ IsDict(Get(j, "result", NonObject))
          /\ "id" \in DOMAIN j.result
    THEN [act |-> "return", chat_id |-> ref]
  ELSE [act |-> "raise",
        exc |-> HTTPException(400, [error |-> "cannot_resolve_chat", ref |-> ref, telegram |-> j])]

\* resolve_chat_id after getChat returned j (lines 180-186)
resolve_looked_up(ref, j) ==
  IF ~IsDict(j) THEN [act |-> "raise", exc |-> AttributeError]
  ELSE IF Get(j, "ok", FALSE) /\ IsDict(Get(j, "result", NonObject))
          /\ "id" \in DOMAIN j.result
    THEN [act |-> "return", chat_id |-> intStr(j.result.id)]
  ELSE [act |-> "raise",
        exc |-> HTTPException(400, [error |-> "cannot_resolve_chat", ref |-> ref, telegram |-> j])]

RecognizedModes == {HTML, Markdown, MarkdownV2}

\* send_telegram: effective_parse_mode
effective_parse_mode(pm) ==
  Or(pm, IF DEFAULT_PARSE_MODE \in RecognizedModes THEN DEFAULT_PARSE_MODE ELSE None)

\* params that leave parse_mode out for the rest of a delivery once one of
\* its chunks had to go without
chunk_params_sticky(cid, txt, at, pm) ==
  LET base == [chat_id |-> cid, text |-> slice(safe_text(txt), at, at + MAX),
               disable_web_page_preview |-> TRUE]
      fell_back == \E k \in 1..Len(calls) :
                     /\ calls[k].method = "sendMessage"
                     /\ "parse_mode" \notin DOMAIN calls[k].params
  IN IF Truthy(effective_parse_mode(pm)) /\ ~fell_back
       THEN [chat_id |-> base.chat_id, text |-> base.text,
             disable_web_page_preview |-> TRUE, parse_mode |-> effective_parse_mode(pm)]
       ELSE base

\* send_telegram: params of the chunk at i
chunk_params(cid, txt, at, pm) ==
  LET base == [chat_id |-> cid, text |-> slice(safe_text(txt), at, at + MAX),
               disable_web_page_preview |-> TRUE]
  IN IF Truthy(effective_parse_mode(pm))
       THEN [chat_id |-> base.chat_id, text |-> base.text,
             disable_web_page_preview |-> TRUE, parse_mode |-> effective_parse_mode(pm)]
       ELSE base

\* a retry that sends the same params again
pop_parse_mode_kept(p) == p

\* params.pop("parse_mode", None)
pop_parse_mode(p) == [k \in DOMAIN p \ {"parse_mode"} |-> p[k]]

KEYWORDS == { <<"p", "a", "r", "s", "e">>,
              <<"e", "n", "t", "i", "t", "i", "e", "s">>,
              <<"m", "a", "r", "k", "d", "o", "w", "n">>,
              <<"h", "t", "m", "l">> }

\* any(k in (desc + " " + raw) for k in (...)) and "parse_mode" in params
is_formatting_error(j, p) ==
  LET desc == lower(Get(j, "description", <<>>))
      raw == lower(Get(j, "raw", <<>>))
  IN (\E k \in KEYWORDS : contains(desc \o <<" ">> \o raw, k))
     /\ "parse_mode" \in DOMAIN p

\* a first attempt whose failure is logged and passed over
after_first_swallowed(j, p) ==
  IF ~IsDict(j) THEN [act |-> "raise", exc |-> AttributeError]
  ELSE IF Get(j, "ok", FALSE) THEN [act |-> "continue"]
  ELSE IF is_formatting_error(j, p) THEN [act |-> "retry"]
  ELSE [act |-> "continue"]

\* send_telegram after the first attempt of a chunk returned j (lines 370-378)
after_first(j, p) ==
  IF ~IsDict(j) THEN [act |-> "raise", exc |-> AttributeError]
  ELSE IF Get(j, "ok", FALSE) THEN [act |-> "continue"]
  ELSE IF is_formatting_error(j, p) THEN [act |-> "retry"]
  ELSE [act |-> "raise",
        exc |-> HTTPException(502, [stage |-> "telegram_error", response |-> j])]

\* send_telegram after the retry returned j2 (lines 376-377)
after_retry(first, j2) ==
  IF ~IsDict(j2) THEN [act |-> "raise", exc |-> AttributeError]
  ELSE IF Get(j2, "ok", FALSE) THEN [act |-> "continue"]
  ELSE [act |-> "raise",
        exc |-> HTTPException(502, [stage |-> "telegram_fallback_failed",
                                    first |-> first, second |-> j2])]

\* ------------------------------------------------------------------------
\* Bookkeeping shared by the steps
\* ------------------------------------------------------------------------

Range(f) == {f[k] : k \in DOMAIN f}

\* no request is on the event loop: handle, add_chat and telegram_webhook are
\* `async def` and, once the body is read, never await, so the loop takes the
\* next of them only when the one before has answered
Idle == pc = "idle"

\* cid of send_to_many, or the chat_id_ref handed to send_telegram
CurRef == IF entry = "many" THEN targets[t] ELSE chat_id_ref

\* one request made upstream: what was asked and which reply came back
Request(method, p, n) == [method |-> method, params |-> p, reply |-> n]

\* the reply of a logged request, and whether it said ok
ReplyOf(c) == IF c.method = "getChat" THEN GetChatReplies[c.reply] ELSE SendReplies[c.reply]
Accepted(c) ==
  LET r == ReplyOf(c) IN
  r.net = "ok" /\ r.json /\ IsDict(r.body) /\ Get(r.body, "ok", FALSE)

\* the sendMessage requests of a log that upstream accepted
Sent(log) == SelectSeq(log, LAMBDA c : c.method = "sendMessage" /\ Accepted(c))

\* upstream accepted the whole of the text, piece after piece, for one chat
Complete(log, txt) ==
  LET acc == Sent(log) IN
  /\ acc # <<>>
  /\ acc[1].params.text.lo = 0
  /\ acc[Len(acc)].params.text.hi = safe_text(txt).len
  /\ \A k \in 1..Len(acc) :
       /\ acc[k].params.text.of = safe_text(txt).id
       /\ acc[k].params.chat_id = acc[1].params.chat_id
       /\ acc[k].params.text.lo < acc[k].params.text.hi
       /\ k > 1 => acc[k].params.text.lo = acc[k - 1].params.text.hi

\* results[cid] = value
Put(f, key, value) == [x \in DOMAIN f \cup {key} |-> IF x = key THEN value ELSE f[x]]

\* send_to_many: what results[cid] becomes (lines 384-389)
many_result(exc) ==
  IF exc = NoExc THEN StrOk
  ELSE IF exc.type = "HTTPException" THEN [error |-> exc.detail]
  ELSE [error |-> Msg("'list' object has no attribute 'get'")]

\* a loop that stops at the first target that fails
next_target_abort(at, exc) == IF exc = NoExc THEN at + 1 ELSE Len(targets) + 1

\* send_to_many: the loop goes on with the next of chat_ids whatever happened
next_target(at, exc) == at + 1

\* an answer whose handler for any Exception comes first: every failure is
\* answered as an internal error
single_response_internal(exc, txt) ==
  IF exc = NoExc
    THEN [status_code |-> 200, ok |-> TRUE, status |-> "sent", length |-> txt.len]
    ELSE [status_code |-> 500, ok |-> FALSE, error |-> "Exception"]

\* handle: the answer after send_telegram(text, chat_id_ref, ...) (lines 526-542)
single_response(exc, txt) ==
  IF exc = NoExc
    THEN [status_code |-> 200, ok |-> TRUE, status |-> "sent", length |-> txt.len]
  ELSE IF exc.type = "HTTPException"
    THEN [status_code |-> exc.status_code, ok |-> FALSE, error |-> "HTTPException",
          detail |-> exc.detail]
  ELSE [status_code |-> 500, ok |-> FALSE, error |-> "Exception"]

\* an answer that turns into a failure when no target took the message
many_response_escalated(st, res) ==
  IF \A c \in DOMAIN res : ~IsOk(res[c])
    THEN [status_code |-> 502, ok |-> FALSE, status |-> st, results |-> res]
    ELSE [status_code |-> 200, ok |-> TRUE, status |-> st, results |-> res]

\* handle: the answer after send_to_many (lines 506, 519)
many_response(st, res) ==
  [status_code |-> 200, ok |-> TRUE, status |-> st, results |-> res]

\* a direct caller of send_telegram sees it return or raise
direct_response(exc) == [raised |-> exc]

NoResponse == [none |-> TRUE]

SetFrame(c, at, p, j) == chat_id' = c /\ i' = at /\ params' = p /\ j1' = j
ResetFrame == SetFrame(None, 0, <<>>, <<>>)

\* send_telegram ends with `exc` (NoExc: it returns), having made the
\* requests of `log`: control goes back to its caller.
Finish(exc, log) ==
  /\ ResetFrame
  /\ deliveries' = Append(deliveries, [ref |-> CurRef, complete |-> Complete(log, text),
                                       exc |-> exc])
  /\ IF entry = "many"
       THEN /\ results' = Put(results, targets[t], many_result(exc))
            /\ t' = next_target(t, exc)
            /\ pc' = "many"
            /\ UNCHANGED response
       ELSE /\ pc' = "done"
            /\ response' = IF entry = "single" THEN single_response(exc, text)
                           ELSE direct_response(exc)
            /\ UNCHANGED <<results, t>>

\* a range that runs one step past the end of a text of whole chunks
has_next_inclusive(at, txt) == at + MAX <= safe_text(txt).len

\* for i in range(0, len(safe_text), MAX): is there a chunk after the one at `at`
has_next(at, txt) == at + MAX < safe_text(txt).len

\* `continue`: the next chunk, or the end of send_telegram
Continue(log) ==
  IF has_next(i, text)
    THEN /\ SetFrame(chat_id, i + MAX, <<>>, <<>>)
         /\ pc' = "send"
         /\ UNCHANGED <<results, t, response, deliveries>>
    ELSE Finish(NoExc, log)

\* for i in range(0, len(safe_text), MAX): the chunk at 0, or no chunk at all
\* when there is nothing to range over
Enter(cid, log) ==
  IF 0 < safe_text(text).len
    THEN /\ SetFrame(cid, 0, <<>>, <<>>)
         /\ pc' = "send"
         /\ UNCHANGED <<results, t, response, deliveries>>
    ELSE Finish(NoExc, log)

\* ------------------------------------------------------------------------
\* Inputs
\* ------------------------------------------------------------------------

\* chat_id of a POST / payload, before handle strips it
PayloadChatIds == {None, StrBlank, StrNeg, StrChan}

\* len(text) of what extract_text and the transforms hand on: never empty
HandleLens == {1, MAX + 1000}

\* parse_mode of a POST / payload
PayloadModes == {None, HTML}

\* chat_id_ref handed to send_telegram by a direct caller
DirectRefs == {None, Str123, StrNeg, StrChan, StrPlus, StrBlank}

\* parse_mode of a payload or of a direct call
ParseModes == {None, HTML, StrXml}

\* chat.id of an update posted to /webhook: a number or any string
WebhookIds == <<[int |-> 555], [str |-> StrChan], [str |-> StrBlank]>>

\* chat_id of a POST /chats payload
AddChatIds == {Str555, StrChan}

\* str(chat_id) in ChatRegistry.add
str_of(v) == IF "int" \in DOMAIN v THEN intStr(v.int) ELSE v.str

\* ------------------------------------------------------------------------
\* ChatRegistry (the ids only; see list_ids)
\* ------------------------------------------------------------------------

\* ChatRegistry.add: the key is inserted, or keeps its place
registry_add(reg, cid) == IF cid \in Range(reg) THEN reg ELSE Append(reg, cid)

\* ChatRegistry.remove
registry_remove(reg, cid) == SelectSeq(reg, LAMBDA x : x # cid)

\* ChatRegistry.list_ids
list_ids == chats

\* ------------------------------------------------------------------------
\* JSON documents and extract_text
\* ------------------------------------------------------------------------

\* JSON values: a string, a number, a list, an object
Str(x) == [str |-> x]
Num(n) == [num |-> n]
List(items) == [list |-> items]
Dict(d) == [dict |-> d]
\* what dict.get gives for a key that is not there
JNone == [none |-> TRUE]

\* isinstance(v, str) / isinstance(v, list) / isinstance(v, dict)
isinstance_str(v) == "str" \in DOMAIN v
isinstance_list(v) == "list" \in DOMAIN v
isinstance_dict(v) == "dict" \in DOMAIN v

NL == "\n"
Quote == "\""

\* the characters of the keys documents are made of
chars(k) ==
  CASE k = "text" -> <<"t", "e", "x", "t">>
    [] k = "message" -> <<"m", "e", "s", "s", "a", "g", "e">>
    [] k = "content" -> <<"c", "o", "n", "t", "e", "n", "t">>
    [] k = "raw" -> <<"r", "a", "w">>
    [] k = "analysis" -> <<"a", "n", "a", "l", "y", "s", "i", "s">>
    [] k = "html" -> <<"h", "t", "m", "l">>
    [] k = "markdown" -> <<"m", "a", "r", "k", "d", "o", "w", "n">>
    [] k = "messages" -> <<"m", "e", "s", "s", "a", "g", "e", "s">>
    [] k = "outputs" -> <<"o", "u", "t", "p", "u", "t", "s">>
    [] k = "value" -> <<"v", "a", "l", "u", "e">>

\* the order in which the keys of an object were inserted
KeyOrder == <<"text", "message", "content", "raw", "analysis", "html", "markdown",
              "messages", "outputs", "value">>

\* sep.join(parts)
RECURSIVE join(_, _)
join(parts, sep) ==
  IF parts = <<>> THEN <<>>
  ELSE IF Len(parts) = 1 THEN parts[1]
  ELSE parts[1] \o sep \o join(Tail(parts), sep)

\* the indentation of json.dumps(..., indent=2) at a depth
RECURSIVE indent(_)
indent(depth) == IF depth = 0 THEN <<>> ELSE <<" ", " ">> \o indent(depth - 1)

\* json.dumps(v, ensure_ascii=False, indent=2), v at a depth of nesting
RECURSIVE dumps(_, _)
dumps(v, depth) ==
  IF isinstance_str(v) THEN <<Quote>> \o v.str \o <<Quote>>
  ELSE IF "num" \in DOMAIN v THEN intStr(v.num)
  ELSE IF isinstance_list(v) THEN
    IF v.list = <<>> THEN <<"[", "]">>
    ELSE <<"[", NL>>
         \o join([n \in 1..Len(v.list) |->
                    indent(depth + 1) \o dumps(v.list[n], depth + 1)], <<",", NL>>)
         \o <<NL>> \o indent(depth) \o <<"]">>
  ELSE IF isinstance_dict(v) THEN
    LET keys == SelectSeq(KeyOrder, LAMBDA k : k \in DOMAIN v.dict) IN
    IF keys = <<>> THEN <<"{", "}">>
    ELSE <<"{", NL>>
         \o join([n \in 1..Len(keys) |->
                    indent(depth + 1) \o <<Quote>> \o chars(keys[n]) \o <<Quote, ":", " ">>
                    \o dumps(v.dict[keys[n]], depth + 1)], <<",", NL>>)
         \o <<NL>> \o indent(depth) \o <<"}">>
  ELSE <<"n", "u", "l", "l">>

\* _as_json(obj)
_as_json(obj) == dumps(obj, 0)

\* str(m) of an item of a list
str(m) ==
  IF isinstance_str(m) THEN m.str
  ELSE IF "num" \in DOMAIN m THEN intStr(m.num)
  ELSE IF isinstance_list(m) \/ isinstance_dict(m) THEN dumps(m, 0)
  ELSE None

\* a list of keys that asks for "message" before "text"
PREFERRED_TEXT_KEYS_message_first ==
  <<"message", "text", "content", "raw", "analysis", "html", "markdown">>

PREFERRED_TEXT_KEYS ==
  <<"text", "message", "content", "raw", "analysis", "html", "markdown">>

\* isinstance(v, str) and v.strip()
usable(v) == isinstance_str(v) /\ strip(v.str) # <<>>

\* extract_text, lines 203-207: the loop over the keys from position n on;
\* None when it ends without a return
RECURSIVE preferred(_, _)
preferred(d, n) ==
  IF n > Len(PREFERRED_TEXT_KEYS) THEN None
  ELSE LET v == Get(d, PREFERRED_TEXT_KEYS[n], JNone) IN
       IF usable(v) THEN strip(v.str) ELSE preferred(d, n + 1)

\* extract_text, line 211: [str(m).strip() for m in msgs if str(m).strip()]
message_parts(msgs) ==
  LET kept == SelectSeq(msgs, LAMBDA m : strip(str(m)) # <<>>) IN
  [n \in 1..Len(kept) |-> strip(str(kept[n]))]

\* extract_text, lines 218-223: the stripped "value" strings of the objects
output_parts(outs) ==
  LET kept == SelectSeq(outs, LAMBDA o : isinstance_dict(o)
                                           /\ usable(Get(o.dict, "value", JNone))) IN
  [n \in 1..Len(kept) |-> strip(kept[n].dict["value"].str)]

\* extract_text(data, rid)
extract_text(d) ==
  LET msgs == Get(d, "messages", JNone)
      outs == Get(d, "outputs", JNone)
  IN IF preferred(d, 1) # None THEN preferred(d, 1)
     ELSE IF isinstance_list(msgs) /\ msgs.list # <<>> /\ message_parts(msgs.list) # <<>>
       THEN join(message_parts(msgs.list), <<NL>>)
     ELSE IF isinstance_list(outs) /\ outs.list # <<>> /\ output_parts(outs.list) # <<>>
       THEN join(output_parts(outs.list), <<NL, NL>>)
     ELSE _as_json(Dict(d))

\* extract_text has not been called
NotCalled == <<"not called">>

NoExtraction == data = <<>> /\ extracted = NotCalled

\* ------------------------------------------------------------------------
\* ChatRegistry: the records, the lock and the file
\* ------------------------------------------------------------------------

\* a name the file system holds nothing under
Absent == [exists |-> FALSE]

\* a file json.dump has written none, part or all of the store `doc` into
File(doc, written) == [exists |-> TRUE, doc |-> doc, written |-> written]

\* json.load of a file gives the store back when all of it is there
WellFormed(f) == f.exists /\ f.written = "all"

\* a writer that works on the registry file itself
tmp_in_place == "path"

\* _save: tmp = self.path + ".tmp"
tmp == "tmp"

\* ChatRegistry._load: the store of the file; {"chats": {}} when there is no
\* file or json.load fails
_load(f) == IF WellFormed(f) THEN f.doc ELSE <<>>

\* a replace that takes the source away and leaves the destination as it was
os_replace_unlinked(files, src, dst) ==
  [n \in DOMAIN files |-> IF n = src THEN Absent ELSE files[n]]

\* os.replace(src, dst): dst becomes the file src named, src names nothing
os_replace(files, src, dst) ==
  IF src = dst THEN files
  ELSE [n \in DOMAIN files |-> IF n = dst THEN files[src]
                               ELSE IF n = src THEN Absent
                               ELSE files[n]]

\* rec = self._data["chats"].get(cid) or {}: no record yet
NoRec == [none |-> TRUE]

\* rec.update({... "first_seen": rec.get("first_seen", now), "last_seen": now})
updated(rec, now) ==
  [first_seen |-> Get(rec, "first_seen", now), last_seen |-> now]

\* del self._data["chats"][chat_id]
deleted(d, cid) == [x \in DOMAIN d \ {cid} |-> d[x]]

\* the statements of _save (lines 63-66)
SavePcs == {"makedirs", "open", "dump", "close", "replace"}

\* a lock let go as soon as the store is changed, before _save
InLock_mutation_only(p) == p = "mutate"

\* the statements inside `with self._lock:` of add and remove
InLock(p) == p = "mutate" \/ p \in SavePcs

\* a save error that leaves _save as an exception
save_error_propagated == "raised"

\* _save: `except Exception as e: print(...)`: the caller returns normally
save_error_outcome == "returned"

\* a thread that has made no call
NoCall ==
  [pc |-> "idle", op |-> "none", cid |-> <<>>, now |-> 0, had |-> NoRec,
   before |-> Absent, save_error |-> FALSE, outcome |-> "none"]

\* ChatRegistry(path) where no file exists at path
NewRegistry ==
  /\ _data = <<>>
  /\ _lock = 0
  /\ fs = [path |-> Absent, tmp |-> Absent]
  /\ clock = 1
  /\ th = [k \in 1..MaxCalls |-> NoCall]
  /\ saved = {}

\* ------------------------------------------------------------------------
\* Steps
\* ------------------------------------------------------------------------

\* the locals of a request that has not begun
NoRequest ==
  /\ pc = "idle"
  /\ entry = "single"
  /\ status = "sent"
  /\ text = Text(1)
  /\ chat_id_ref = None
  /\ parse_mode = None
  /\ targets = <<>>
  /\ t = 1
  /\ results = <<>>
  /\ chat_id = None
  /\ i = 0
  /\ params = <<>>
  /\ j1 = <<>>
  /\ calls = <<>>
  /\ deliveries = <<>>
  /\ response = NoResponse

\* the service as it boots: the environment is read, the registry file is
\* missing
Init ==
  /\ BOT_TOKEN \in BOOLEAN
  /\ DEFAULT_CHAT_ID \in {<<>>, Str123, StrChan}
  /\ SECOND_DEFAULT_CHAT_ID \in {<<>>, Str123}
  /\ DEFAULT_PARSE_MODE \in {<<>>, HTML, StrXml}
  /\ STRICT_CHAT_ID \in BOOLEAN
  /\ BROADCAST_DEFAULT \in BOOLEAN
  /\ chats = <<>>
  /\ NoRequest
  /\ NewRegistry
  /\ NoExtraction

\* a request begins: the locals of the one before are gone
NewRequest(e, st, txt, ref, pm) ==
  /\ entry' = e
  /\ status' = st
  /\ text' = txt
  /\ chat_id_ref' = ref
  /\ parse_mode' = pm
  /\ results' = <<>>
  /\ t' = 1
  /\ calls' = <<>>
  /\ deliveries' = <<>>
  /\ ResetFrame

\* handle: chat_id_ref = str(data.get("chat_id") or "").strip() or None
payload_chat_id_ref(v) == Or(strip(Or(v, <<>>)), None)

\* a list of defaults that stops at the first
default_targets_first_only ==
  IF Truthy(DEFAULT_CHAT_ID) THEN <<DEFAULT_CHAT_ID>> ELSE <<>>

\* handle: the default destinations that are set, first then second
default_targets ==
  (IF Truthy(DEFAULT_CHAT_ID) THEN <<DEFAULT_CHAT_ID>> ELSE <<>>)
  \o (IF Truthy(SECOND_DEFAULT_CHAT_ID) THEN <<SECOND_DEFAULT_CHAT_ID>> ELSE <<>>)

\* POST /: lines 467-501, 509-526 (up to the first call of send_telegram or
\* send_to_many, or to the second registry.list_ids())
handle(v, n, pm) ==
  /\ Idle
  /\ LET ref == payload_chat_id_ref(v) IN
     IF Truthy(ref)
       THEN /\ NewRequest("single", "sent", Text(n), ref, pm)
            /\ pc' = "resolve"
            /\ targets' = <<>>
            /\ response' = NoResponse
     ELSE IF BROADCAST_DEFAULT /\ list_ids # <<>>
       THEN /\ NewRequest("many", "broadcast", Text(n), ref, pm)
            /\ pc' = "list_ids"
            /\ targets' = <<>>
            /\ response' = NoResponse
     ELSE IF default_targets # <<>>
       THEN /\ NewRequest("many", "sent_to_defaults", Text(n), ref, pm)
            /\ pc' = "many"
            /\ targets' = default_targets
            /\ response' = NoResponse
     ELSE /\ NewRequest("single", "sent", Text(n), ref, pm)
          /\ pc' = "done"
          /\ targets' = <<>>
          /\ response' = single_response(HTTPException(400, NoTarget), Text(n))
  /\ UNCHANGED <<cfg, registry, extraction, chats>>

\* handle, line 502: targets = registry.list_ids()
list_targets ==
  /\ pc = "list_ids"
  /\ targets' = list_ids
  /\ pc' = "many"
  /\ UNCHANGED <<cfg, registry, extraction, chats, entry, status, text, chat_id_ref, parse_mode, t, results,
                 frame, calls, deliveries, response>>

\* send_to_many, line 382: the next cid, or `return results` and the answer
\* of handle (lines 504-506, 517-519)
send_to_many ==
  /\ pc = "many"
  /\ IF t <= Len(targets)
       THEN /\ pc' = "resolve"
            /\ calls' = <<>>
            /\ UNCHANGED response
       ELSE /\ pc' = "done"
            /\ response' = many_response(status, results)
            /\ UNCHANGED calls
  /\ UNCHANGED <<cfg, registry, extraction, chats, entry, status, text, chat_id_ref, parse_mode, targets, t,
                 results, frame, deliveries>>

\* a caller other than handle: send_telegram(text, chat_id_ref, rid, parse_mode)
call_send_telegram(ref, n, pm) ==
  /\ Idle
  /\ NewRequest("direct", "sent", Text(n), ref, pm)
  /\ pc' = "resolve"
  /\ targets' = <<>>
  /\ response' = NoResponse
  /\ UNCHANGED <<cfg, registry, extraction, chats>>

\* send_telegram, line 360: resolve_chat_id up to its network call
resolve ==
  /\ pc = "resolve"
  /\ LET r == resolve_chat_id(CurRef) IN
     CASE r.act = "return" -> Enter(r.chat_id, calls)
       [] r.act = "getChat" ->
            /\ SetFrame(r.ref, 0, <<>>, <<>>)
            /\ pc' = "getChat"
            /\ UNCHANGED <<results, t, response, deliveries>>
       [] r.act = "raise" -> Finish(r.exc, calls)
  /\ UNCHANGED <<cfg, registry, extraction, chats, entry, status, text, chat_id_ref, parse_mode, targets, calls>>

\* resolve_chat_id, lines 179-186: the lookup of an @handle
getChat ==
  /\ pc = "getChat"
  /\ \E n \in 1..Len(GetChatReplies) :
       LET got == _telegram_call(GetChatReplies[n])
           log == IF TELEGRAM_BASE
                    THEN Append(calls, Request("getChat", [chat_id |-> chat_id], n))
                    ELSE calls
           r == resolve_looked_up(chat_id, got.j)
       IN /\ calls' = log
          /\ IF got.exc # NoExc THEN Finish(got.exc, log)
             ELSE IF r.act = "return" THEN Enter(r.chat_id, log)
             ELSE Finish(r.exc, log)
  /\ UNCHANGED <<cfg, registry, extraction, chats, entry, status, text, chat_id_ref, parse_mode, targets>>

\* send_telegram, lines 366-378: the first attempt of the chunk at i
send_chunk ==
  /\ pc = "send"
  /\ \E n \in 1..Len(SendReplies) :
       LET p == chunk_params(chat_id, text, i, parse_mode)
           got == _telegram_call(SendReplies[n])
           log == IF TELEGRAM_BASE THEN Append(calls, Request("sendMessage", p, n))
                  ELSE calls
           a == after_first(got.j, p)
       IN /\ calls' = log
          /\ IF got.exc # NoExc THEN Finish(got.exc, log)
             ELSE IF a.act = "continue" THEN Continue(log)
             ELSE IF a.act = "retry"
               THEN /\ SetFrame(chat_id, i, pop_parse_mode(p), got.j)
                    /\ pc' = "retry"
                    /\ UNCHANGED <<results, t, response, deliveries>>
             ELSE Finish(a.exc, log)
  /\ UNCHANGED <<cfg, registry, extraction, chats, entry, status, text, chat_id_ref, parse_mode, targets>>

\* send_telegram, lines 374-377: the retry without parse_mode
retry_chunk ==
  /\ pc = "retry"
  /\ \E n \in 1..Len(SendReplies) :
       LET got == _telegram_call(SendReplies[n])
           log == IF TELEGRAM_BASE THEN Append(calls, Request("sendMessage", params, n))
                  ELSE calls
           a == after_retry(j1, got.j)
       IN /\ calls' = log
          /\ IF got.exc # NoExc THEN Finish(got.exc, log)
             ELSE IF a.act = "continue" THEN Continue(log)
             ELSE Finish(a.exc, log)
  /\ UNCHANGED <<cfg, registry, extraction, chats, entry, status, text, chat_id_ref, parse_mode, targets>>

rest == <<cfg, registry, extraction, pc, entry, status, text, chat_id_ref, parse_mode, targets, t, results,
          frame, calls, deliveries, response>>

\* POST /chats: a numeric chat_id is added to the registry
add_chat(v) ==
  /\ Idle
  /\ LET cid == strip(Or(v, <<>>)) IN
     /\ _is_numeric_chat_id(cid)
     /\ Len(registry_add(chats, cid)) <= MaxChats
     /\ chats' = registry_add(chats, cid)
  /\ UNCHANGED rest

\* POST /webhook: the chat of the update is added to the registry
telegram_webhook(v) ==
  /\ Idle
  /\ Len(registry_add(chats, str_of(v))) <= MaxChats
  /\ chats' = registry_add(chats, str_of(v))
  /\ UNCHANGED rest

\* DELETE /chats/{chat_id}: a `def` route, run by a pool thread at any time
remove_chat(cid) ==
  /\ chats' = registry_remove(chats, cid)
  /\ UNCHANGED rest

\* the answer has gone out: the request and its locals are no more
answered ==
  /\ pc = "done"
  /\ NewRequest("single", "sent", Text(1), None, None)
  /\ pc' = "idle"
  /\ targets' = <<>>
  /\ response' = NoResponse
  /\ UNCHANGED <<cfg, registry, extraction, chats>>

Next ==
  \/ \E v \in PayloadChatIds, n \in HandleLens, pm \in PayloadModes : handle(v, n, pm)
  \/ list_targets
  \/ send_to_many
  \/ resolve
  \/ getChat
  \/ send_chunk
  \/ retry_chunk
  \/ \E v \in AddChatIds : add_chat(v)
  \/ \E n \in 1..Len(WebhookIds) : telegram_webhook(WebhookIds[n])
  \/ \E cid \in Range(chats) : remove_chat(cid)
  \/ answered

Spec == Init /\ [][Next]_vars

\* send_telegram on its own, called with any arguments: neither the second
\* default nor the broadcast flag nor the registry is read by it.
InitSend ==
  /\ BOT_TOKEN \in BOOLEAN
  /\ DEFAULT_CHAT_ID \in {<<>>, Str123, StrChan}
  /\ SECOND_DEFAULT_CHAT_ID = <<>>
  /\ DEFAULT_PARSE_MODE \in {<<>>, HTML, StrXml}
  /\ STRICT_CHAT_ID \in BOOLEAN
  /\ BROADCAST_DEFAULT = FALSE
  /\ chats = <<>>
  /\ NoRequest
  /\ NewRegistry
  /\ NoExtraction

NextSend ==
  \/ \E ref \in DirectRefs, n \in TextLens, pm \in ParseModes : call_send_telegram(ref, n, pm)
  \/ resolve
  \/ getChat
  \/ send_chunk
  \/ retry_chunk
  \/ answered

SpecSend == InitSend /\ [][NextSend]_vars

\* ------------------------------------------------------------------------
\* ChatRegistry.add and ChatRegistry.remove called from several threads
\* ------------------------------------------------------------------------

\* chat ids the calls are made with
AllIds == <<Str555, StrNeg, Str123>>
RegistryIds == {AllIds[n] : n \in 1..Min(MaxCalls, Len(AllIds))}

server == <<cfg, extraction, chats, pc, entry, status, text, chat_id_ref, parse_mode, targets, t,
            results, frame, calls, deliveries, response>>

\* the registry on its own: the service takes no request
InitRegistry ==
  /\ BOT_TOKEN = FALSE
  /\ DEFAULT_CHAT_ID = <<>>
  /\ SECOND_DEFAULT_CHAT_ID = <<>>
  /\ DEFAULT_PARSE_MODE = <<>>
  /\ STRICT_CHAT_ID = FALSE
  /\ BROADCAST_DEFAULT = FALSE
  /\ chats = <<>>
  /\ NoRequest
  /\ NewRegistry
  /\ NoExtraction

\* call k goes on to statement q: the lock is taken on entering the `with`
\* block and let go on leaving it; what the call found in the store and at
\* the final path is forgotten when it returns
Goto(k, q, call) ==
  /\ th' = [th EXCEPT ![k] =
             IF q = "returned"
               THEN [call EXCEPT !.pc = q, !.had = NoRec, !.before = Absent]
               ELSE [call EXCEPT !.pc = q]]
  /\ _lock' = IF InLock(q) THEN k ELSE IF _lock = k THEN 0 ELSE _lock

\* _save, lines 67-68: the exception is printed, add / remove go on to return
SaveError(k) ==
  Goto(k, "returned", [th[k] EXCEPT !.save_error = TRUE, !.outcome = save_error_outcome])

\* calls are numbered in the order they are made
Started(k) == IF k = 1 THEN TRUE ELSE th[k - 1].pc # "idle"

\* ChatRegistry.add, lines 79-80: cid = str(chat_id); now = int(time.time())
call_add(k, cid) ==
  /\ th[k].pc = "idle"
  /\ Started(k)
  /\ Goto(k, "acquire", [th[k] EXCEPT !.op = "add", !.cid = cid, !.now = clock])
  /\ UNCHANGED <<server, _data, fs, clock, saved>>

\* ChatRegistry.remove, called
call_remove(k, cid) ==
  /\ th[k].pc = "idle"
  /\ Started(k)
  /\ Goto(k, "acquire", [th[k] EXCEPT !.op = "remove", !.cid = cid])
  /\ UNCHANGED <<server, _data, fs, clock, saved>>

\* `with self._lock:` entered once no other call holds the lock
acquire(k) ==
  /\ th[k].pc = "acquire"
  /\ _lock = 0
  /\ Goto(k, "mutate", th[k])
  /\ UNCHANGED <<server, _data, fs, clock, saved>>

\* add, lines 82-90: the record is made or updated; remove, lines 96-97: the
\* record is deleted, or there is none and remove returns
mutate(k) ==
  /\ th[k].pc = "mutate"
  /\ LET c == th[k].cid
         rec == IF c \in DOMAIN _data THEN _data[c] ELSE NoRec
         call == [th[k] EXCEPT !.had = rec, !.before = fs.path]
     IN IF th[k].op = "add"
          THEN /\ _data' = Put(_data, c, updated(rec, th[k].now))
               /\ Goto(k, "makedirs", call)
        ELSE IF c \in DOMAIN _data
          THEN /\ _data' = deleted(_data, c)
               /\ Goto(k, "makedirs", call)
        ELSE /\ _data' = _data
             /\ Goto(k, "returned", [call EXCEPT !.outcome = "returned"])
  /\ UNCHANGED <<server, fs, clock, saved>>

\* _save, line 63: os.makedirs(os.path.dirname(self.path), exist_ok=True)
_save_makedirs(k, ok) ==
  /\ th[k].pc = "makedirs"
  /\ IF ok THEN Goto(k, "open", th[k]) ELSE SaveError(k)
  /\ UNCHANGED <<server, _data, fs, clock, saved>>

\* _save, line 64: open(tmp, "w") leaves an empty file under tmp
_save_open(k, ok) ==
  /\ th[k].pc = "open"
  /\ IF ok
       THEN /\ fs' = [fs EXCEPT ![tmp] = File(_data, "none")]
            /\ Goto(k, "dump", th[k])
       ELSE /\ fs' = fs
            /\ SaveError(k)
  /\ UNCHANGED <<server, _data, clock, saved>>

\* _save, line 65: json.dump writes the store out piece by piece
_save_dump(k, ok) ==
  /\ th[k].pc = "dump"
  /\ saved' = saved \cup {_data}
  /\ IF ok
       THEN /\ fs' = [fs EXCEPT ![tmp] = File(_data, "part")]
            /\ Goto(k, "close", th[k])
       ELSE /\ fs' = fs
            /\ SaveError(k)
  /\ UNCHANGED <<server, _data, clock>>

\* _save, lines 65-66: the last piece is written and the file closed
_save_close(k, ok) ==
  /\ th[k].pc = "close"
  /\ IF ok
       THEN /\ fs' = [fs EXCEPT ![tmp] = File(_data, "all")]
            /\ Goto(k, "replace", th[k])
       ELSE /\ fs' = fs
            /\ SaveError(k)
  /\ UNCHANGED <<server, _data, clock, saved>>

\* _save, line 66: os.replace(tmp, self.path); then add / remove return
_save_replace(k, ok) ==
  /\ th[k].pc = "replace"
  /\ IF ok /\ fs[tmp].exists
       THEN /\ fs' = os_replace(fs, tmp, "path")
            /\ Goto(k, "returned", [th[k] EXCEPT !.outcome = "returned"])
       ELSE /\ fs' = fs
            /\ SaveError(k)
  /\ UNCHANGED <<server, _data, clock, saved>>

\* time passes
tick ==
  /\ clock < MaxClock
  /\ clock' = clock + 1
  /\ UNCHANGED <<server, _data, _lock, fs, th, saved>>

\* the process dies with its threads, whatever they were doing, and is
\* started again: ChatRegistry.__init__ loads the file
crash_restart ==
  /\ \E k \in 1..MaxCalls : th[k].pc # "killed"
  /\ th' = [k \in 1..MaxCalls |-> [NoCall EXCEPT !.pc = "killed"]]
  /\ _lock' = 0
  /\ _data' = _load(fs.path)
  /\ UNCHANGED <<server, fs, clock, saved>>

NextRegistry ==
  \/ \E k \in 1..MaxCalls, cid \in RegistryIds : call_add(k, cid)
  \/ \E k \in 1..MaxCalls, cid \in RegistryIds : call_remove(k, cid)
  \/ \E k \in 1..MaxCalls : acquire(k)
  \/ \E k \in 1..MaxCalls : mutate(k)
  \/ \E k \in 1..MaxCalls, ok \in BOOLEAN : _save_makedirs(k, ok)
  \/ \E k \in 1..MaxCalls, ok \in BOOLEAN : _save_open(k, ok)
  \/ \E k \in 1..MaxCalls, ok \in BOOLEAN : _save_dump(k, ok)
  \/ \E k \in 1..MaxCalls, ok \in BOOLEAN : _save_close(k, ok)
  \/ \E k \in 1..MaxCalls, ok \in BOOLEAN : _save_replace(k, ok)
  \/ tick
  \/ crash_restart

SpecRegistry == InitRegistry /\ [][NextRegistry]_vars

\* ------------------------------------------------------------------------
\* extract_text called with a document
\* ------------------------------------------------------------------------

StrHi == <<" ", "h", "i", " ">>
StrM == <<"m">>
StrC == <<"c">>
StrR == <<"r">>
StrMd == <<" ", "m", "d">>

\* the key is not in the document
Missing == [missing |-> TRUE]

\* what a document may hold under a key
TextValues == {Missing, Num(7), Str(StrBlank), Str(StrHi)}
MessageValues == {Missing, Num(7), Str(StrBlank), Str(StrM)}
ContentValues == {Missing, Str(StrBlank), Str(StrC)}
RawValues == {Missing, Str(StrR)}
AnalysisValues == {Missing, Str(<<"a">>)}
HtmlValues == {Missing, Str(<<"<", "b", ">">>)}
MarkdownValues == {Missing, Str(StrMd)}
MessagesValues ==
  {Missing, Str(StrM), List(<<>>), List(<<Str(StrBlank)>>),
   List(<<Str(<<" ", "a", " ">>), Num(7), Str(StrBlank), Str(<<"b">>)>>)}
OutputsValues ==
  {Missing, List(<<>>),
   List(<<Num(7), Dict([value |-> Str(StrBlank)])>>),
   List(<<Dict([value |-> Str(<<" ", "o", " ">>)]), Num(7), Dict([value |-> Num(7)]),
          Dict([value |-> Str(<<"p">>)])>>)}

\* the object that holds the values given, under the keys in order
Document(values) ==
  LET present == {n \in 1..Len(values) : values[n] # Missing} IN
  [k \in {KeyOrder[n] : n \in present} |->
     values[CHOOSE n \in present : KeyOrder[n] = k]]

Documents ==
  {Document(<<a, b, c, d, e, f, g, h, o>>) :
     a \in TextValues, b \in MessageValues, c \in ContentValues, d \in RawValues,
     e \in AnalysisValues, f \in HtmlValues, g \in MarkdownValues,
     h \in MessagesValues, o \in OutputsValues}

InitExtract ==
  /\ BOT_TOKEN = FALSE
  /\ DEFAULT_CHAT_ID = <<>>
  /\ SECOND_DEFAULT_CHAT_ID = <<>>
  /\ DEFAULT_PARSE_MODE = <<>>
  /\ STRICT_CHAT_ID = FALSE
  /\ BROADCAST_DEFAULT = FALSE
  /\ chats = <<>>
  /\ NoRequest
  /\ NewRegistry
  /\ data \in Documents
  /\ extracted = NotCalled

\* text = extract_text(data, rid)
call_extract_text ==
  /\ extracted = NotCalled
  /\ extracted' = extract_text(data)
  /\ UNCHANGED <<cfg, registry, data, chats, pc, entry, status, text, chat_id_ref,
                 parse_mode, targets, t, results, frame, calls, deliveries, response>>

NextExtract == call_extract_text

SpecExtract == InitExtract /\ [][NextExtract]_vars

\* ------------------------------------------------------------------------
\* What the log of upstream requests shows
\* ------------------------------------------------------------------------

IsSend(c) == c.method = "sendMessage"
IsLookup(c) == c.method = "getChat"
HasMode(c) == "parse_mode" \in DOMAIN c.params

\* the sendMessage failed and its description or raw body names the formatting
FormatFailure(c) ==
  IsSend(c) /\ (ReplyOf(c) = ReplyCantParse \/ ReplyOf(c) = ReplyHtmlPage)

\* len(safe_text)
SafeLen == IF text.len = 0 THEN PlaceholderLen ELSE text.len

Returned == pc = "done" /\ response = direct_response(NoExc)
Raised == pc = "done" /\ response # direct_response(NoExc)

\* ------------------------------------------------------------------------
\* C1..C4: the chunk loop of send_telegram (SpecSend)
\* ------------------------------------------------------------------------

\* C1: a sendMessage that carried a parse_mode and failed with a formatting
\* description or raw body is followed by exactly one retry of the same
\* chat_id and text without parse_mode; when that retry is accepted the
\* delivery goes on with the next chunk or, after the last chunk, the call
\* returns.  No chunk is sent more than twice.
C1_FormatRetryOnce ==
  /\ \A k \in 1..Len(calls) :
       (FormatFailure(calls[k]) /\ HasMode(calls[k])) =>
         /\ k = Len(calls) => pc = "retry"
         /\ k < Len(calls) =>
              /\ IsSend(calls[k + 1])
              /\ calls[k + 1].params.chat_id = calls[k].params.chat_id
              /\ calls[k + 1].params.text = calls[k].params.text
              /\ ~HasMode(calls[k + 1])
              /\ k + 1 < Len(calls) => calls[k + 2].params.text # calls[k].params.text
              /\ Accepted(calls[k + 1]) =>
                   IF calls[k].params.text.hi < SafeLen
                     THEN \/ k + 1 = Len(calls) /\ pc = "send"
                          \/ /\ k + 1 < Len(calls)
                             /\ IsSend(calls[k + 2])
                             /\ calls[k + 2].params.text.lo = calls[k].params.text.hi
                     ELSE k + 1 = Len(calls) /\ Returned
  /\ \A k \in 1..Len(calls) :
       IsSend(calls[k]) =>
         Cardinality({m \in 1..Len(calls) :
                        IsSend(calls[m]) /\ calls[m].params.text = calls[k].params.text}) <= 2

\* a two-chunk text whose chunks were both delivered, one of them by the retry
C1_Witness ==
  /\ Returned
  /\ Len(Sent(calls)) = 2
  /\ \E k \in 1..(Len(calls) - 1) :
       FormatFailure(calls[k]) /\ HasMode(calls[k]) /\ Accepted(calls[k + 1])

\* C2: when a non-empty text of length L is handed to send_telegram and every
\* sendMessage is accepted, the call returns after exactly ceil(L / 4000)
\* requests; the k-th carries the positions (k-1)*4000 .. min(k*4000, L) of
\* the text, and all carry the same chat_id (the reference itself when it is
\* numeric).
C2_ChunksCoverText ==
  LET sends == SelectSeq(calls, IsSend) IN
  (/\ pc = "done"
   /\ text.len > 0
   /\ sends # <<>>
   /\ \A k \in 1..Len(sends) : Accepted(sends[k]))
  =>
  /\ Returned
  /\ Len(sends) = (text.len + MAX - 1) \div MAX
  /\ \A k \in 1..Len(sends) :
       /\ sends[k].params.text =
            [of |-> "text", lo |-> (k - 1) * MAX, hi |-> Min(k * MAX, text.len)]
       /\ sends[k].params.chat_id = sends[1].params.chat_id
  /\ chat_id_ref \in {Str123, StrNeg} => sends[1].params.chat_id = chat_id_ref

\* 5000 characters went out as 4000 and then 1000
C2_Witness ==
  /\ Returned
  /\ text.len = MAX + 1000
  /\ Len(calls) = 2
  /\ calls[1].params.text = [of |-> "text", lo |-> 0, hi |-> MAX]
  /\ calls[2].params.text = [of |-> "text", lo |-> MAX, hi |-> MAX + 1000]
  /\ Accepted(calls[1]) /\ Accepted(calls[2])

\* C3: a sendMessage that fails, other than a first attempt the retry is for,
\* is the last request of the delivery, and the call raises.
C3_FailureAborts ==
  \A k \in 1..Len(calls) :
    (/\ IsSend(calls[k])
     /\ ~Accepted(calls[k])
     /\ ~(FormatFailure(calls[k]) /\ HasMode(calls[k])))
    => k = Len(calls) /\ Raised

\* the first chunk was delivered, the second failed, and what was left of
\* the text was never sent
C3_Witness ==
  /\ Raised
  /\ Len(calls) >= 2
  /\ Accepted(calls[1])
  /\ IsSend(calls[Len(calls)]) /\ ~Accepted(calls[Len(calls)])
  /\ calls[Len(calls)].params.text.hi < text.len

\* C4: a sendMessage that ends in a timeout or connection failure is the last
\* request of the delivery, parse_mode or not, and the call raises the 502 of
\* the request error.
C4_NetworkErrorEnds ==
  \A k \in 1..Len(calls) :
    (IsSend(calls[k]) /\ ReplyOf(calls[k]) = NetError)
    => /\ k = Len(calls)
       /\ pc = "done"
       /\ response = direct_response(HTTPException(502, RequestError))

\* the request that timed out carried a parse_mode
C4_Witness ==
  /\ pc = "done"
  /\ calls # <<>>
  /\ IsSend(calls[Len(calls)])
  /\ HasMode(calls[Len(calls)])
  /\ ReplyOf(calls[Len(calls)]) = NetError

\* ------------------------------------------------------------------------
\* C5, C6: the fan-out (Spec)
\* ------------------------------------------------------------------------

\* the last place of chat id c among the targets
LastPlace(c) ==
  CHOOSE k \in 1..Len(targets) :
    targets[k] = c /\ \A m \in (k + 1)..Len(targets) : targets[m] # c

\* C5: send_to_many calls send_telegram for every target, in the order
\* given, whatever the earlier ones raised, and returns a mapping whose keys
\* are the targets; a target's entry is "ok" exactly when upstream took the
\* whole text for it (at its last place among the targets), and an error
\* detail otherwise.
C5_EveryTargetAttempted ==
  (entry = "many" /\ pc \in {"many", "resolve", "getChat", "send", "retry", "done"}) =>
    /\ Len(deliveries) <= Len(targets)
    /\ \A k \in 1..Len(deliveries) : deliveries[k].ref = targets[k]
    /\ pc = "done" =>
         /\ Len(deliveries) = Len(targets)
         /\ "results" \in DOMAIN response
         /\ DOMAIN response.results = Range(targets)
         /\ \A c \in Range(targets) :
              /\ IsOk(response.results[c]) <=> deliveries[LastPlace(c)].complete
              /\ ~IsOk(response.results[c]) => DOMAIN response.results[c] = {"error"}

\* two targets: the first ended in a network error, the second was served
C5_Witness ==
  /\ pc = "done"
  /\ entry = "many"
  /\ Len(targets) = 2
  /\ targets[1] # targets[2]
  /\ deliveries[1].exc = HTTPException(502, RequestError)
  /\ deliveries[2].complete
  /\ IsOk(response.results[targets[2]])

\* C6: a POST / without chat_id for which at least one delivery was
\* attempted is answered 200 with ok true and the per-target results, even
\* when no target took the message.
C6_FanOutAlwaysAnswersOk ==
  (pc = "done" /\ ~Truthy(chat_id_ref) /\ deliveries # <<>>) =>
    /\ response.status_code = 200
    /\ response.ok = TRUE
    /\ response.status \in {"broadcast", "sent_to_defaults"}
    /\ response.results = results

\* both targets failed and the answer is still ok
C6_Witness ==
  /\ pc = "done"
  /\ ~Truthy(chat_id_ref)
  /\ Len(deliveries) = 2
  /\ \A k \in 1..2 : ~deliveries[k].complete /\ deliveries[k].exc # NoExc
  /\ response.ok = TRUE
  /\ response.status_code = 200

\* ------------------------------------------------------------------------
\* C7..C10: resolve_chat_id
\* ------------------------------------------------------------------------

\* C7 (SpecSend): for the references "123" and "-1009999", strict mode or
\* not, no getChat is made, the chat_id used is the reference itself, and the
\* call does not fail with a 400 of the resolver.
C7_NumericNoLookup ==
  (pc \notin {"idle", "resolve"} /\ chat_id_ref \in {Str123, StrNeg}) =>
    /\ pc \in {"send", "retry", "done"}
    /\ \A k \in 1..Len(calls) : ~IsLookup(calls[k])
    /\ pc \in {"send", "retry"} => chat_id = chat_id_ref
    /\ \A k \in 1..Len(calls) : IsSend(calls[k]) => calls[k].params.chat_id = chat_id_ref
    /\ pc = "done" =>
         \/ deliveries[1].exc = NoExc
         \/ deliveries[1].exc.type # "HTTPException"
         \/ deliveries[1].exc.status_code # 400

\* a negative id resolved to itself in strict mode
C7_Witness ==
  /\ STRICT_CHAT_ID
  /\ chat_id_ref = StrNeg
  /\ pc = "send"
  /\ chat_id = StrNeg
  /\ calls = <<>>

\* C8 (Spec): in strict mode no request of any kind makes a getChat; a
\* delivery to the handle "@chan" ends with the strict-mode 400 and without
\* a single upstream request.
C8_StrictNeverLooksUp ==
  STRICT_CHAT_ID =>
    /\ pc # "getChat"
    /\ \A k \in 1..Len(calls) : ~IsLookup(calls[k])
    /\ (/\ pc \in {"many", "done"}
        /\ deliveries # <<>>
        /\ deliveries[Len(deliveries)].ref = StrChan)
       => /\ calls = <<>>
          /\ deliveries[Len(deliveries)].exc = HTTPException(400, StrictViolation)

\* a broadcast to a registry that holds "@chan", with the credential set
C8_Witness ==
  /\ STRICT_CHAT_ID
  /\ BOT_TOKEN
  /\ pc = "done"
  /\ status = "broadcast"
  /\ entry = "many"
  /\ deliveries # <<>>
  /\ deliveries[1].ref = StrChan
  /\ response.results[StrChan] = [error |-> StrictViolation]

\* the reference is absent or holds nothing but blanks
Blank(x) == x = None \/ \A k \in 1..Len(x) : x[k] = " "

\* C9 (Spec): a delivery fails with the missing-chat-id error exactly when
\* the reference it was given is absent or blank and no default is
\* configured.
C9_MissingOnlyWhenBothEmpty ==
  \A k \in 1..Len(deliveries) :
    deliveries[k].exc = HTTPException(400, MissingChatId)
      <=> (Blank(deliveries[k].ref) /\ DEFAULT_CHAT_ID = <<>>)

\* the reference resolve_chat_id works on is "@chan"
AtRef == chat_id_ref = StrChan \/ (chat_id_ref = None /\ DEFAULT_CHAT_ID = StrChan)

\* the JSON _telegram_get hands back for a reply
Upstream(reply) ==
  IF reply.json THEN reply.body
  ELSE [ok |-> FALSE, http_status |-> reply.http, raw |-> reply.body]

\* str(-1005)
StrChanId == <<"-", "1", "0", "0", "5">>

\* resolving "@chan" made one getChat, and what followed from its reply
OneLookup ==
  (AtRef /\ pc \in {"send", "retry", "done"}) =>
    /\ calls # <<>>
    /\ IsLookup(calls[1])
    /\ calls[1].params.chat_id = StrChan
    /\ \A k \in 2..Len(calls) : ~IsLookup(calls[k])
    /\ ReplyOf(calls[1]) = ReplyChat =>
         /\ pc \in {"send", "retry"} => chat_id = StrChanId
         /\ \A k \in 2..Len(calls) : IsSend(calls[k]) /\ calls[k].params.chat_id = StrChanId
    /\ (\/ ReplyOf(calls[1]) = ReplyNoId
        \/ ReplyOf(calls[1]) = ReplyNoResult
        \/ ReplyOf(calls[1]) = ReplyNoChat
        \/ ReplyOf(calls[1]) = ReplyPlain)
       => /\ pc = "done"
          /\ Len(calls) = 1
          /\ response = direct_response(HTTPException(400,
                          [error |-> "cannot_resolve_chat", ref |-> StrChan,
                           telegram |-> Upstream(ReplyOf(calls[1]))]))

\* a reference that is neither numeric nor an @handle is refused unasked
InvalidRefused ==
  (chat_id_ref = StrPlus /\ pc \notin {"idle", "resolve"}) =>
    /\ pc = "done"
    /\ calls = <<>>
    /\ response = direct_response(HTTPException(400, InvalidReference))

\* without the credential nothing is asked upstream: the lookup ends in the
\* 503 of a service that is not ready
NotReadyNoLookup ==
  (AtRef /\ pc \in {"send", "retry", "done"}) =>
    /\ pc = "done"
    /\ calls = <<>>
    /\ response = direct_response(HTTPException(503, NotReady))

\* C10 as stated (SpecSend): with strict mode off, resolving an @handle makes
\* exactly one getChat; an id found is the chat_id of every chunk; a failed
\* lookup or a result without id raises the unresolvable-handle error with
\* the upstream response and no sendMessage; a non-numeric reference without
\* @ is refused with no upstream request.
C10_AsStated == ~STRICT_CHAT_ID => (OneLookup /\ InvalidRefused)

\* C10 amended (SpecSend): the same where the bot credential is configured;
\* where it is not, no getChat is made and the resolution fails with the 503
\* of a service that is not ready.
C10_LookupWhenReady ==
  ~STRICT_CHAT_ID =>
    /\ InvalidRefused
    /\ BOT_TOKEN => OneLookup
    /\ ~BOT_TOKEN => NotReadyNoLookup

\* both chunks of a text went to the id the lookup found
C10_Witness ==
  /\ ~STRICT_CHAT_ID
  /\ BOT_TOKEN
  /\ chat_id_ref = StrChan
  /\ Returned
  /\ Len(calls) = 3
  /\ ReplyOf(calls[1]) = ReplyChat
  /\ calls[2].params.chat_id = StrChanId
  /\ calls[3].params.chat_id = StrChanId

\* ------------------------------------------------------------------------
\* C11, C12: what a sendMessage carries (SpecSend)
\* ------------------------------------------------------------------------

\* the mode a delivery is to use: the argument when it is a recognized
\* mode, else the configured default when that is one, else none
StatedMode(pm) ==
  IF pm \in RecognizedModes THEN pm
  ELSE IF DEFAULT_PARSE_MODE \in RecognizedModes THEN DEFAULT_PARSE_MODE
  ELSE None

\* C11: every sendMessage that carries a parse_mode carries a recognized
\* one, namely the argument if recognized, else the default if recognized;
\* one that carries none belongs to a delivery whose mode is none, or is the
\* retry of a formatting failure.
C11_ModeAsStated ==
  \A k \in 1..Len(calls) :
    IsSend(calls[k]) =>
      /\ HasMode(calls[k]) =>
           /\ calls[k].params.parse_mode \in RecognizedModes
           /\ calls[k].params.parse_mode = StatedMode(parse_mode)
      /\ ~HasMode(calls[k]) =>
           \/ StatedMode(parse_mode) = None
           \/ k > 1 /\ FormatFailure(calls[k - 1]) /\ HasMode(calls[k - 1])

\* C12: no sendMessage carries an empty text.  For the empty text every
\* request carries the whole placeholder and nothing else, and the call
\* that returns has delivered exactly one chunk; for any other text every
\* chunk is a non-empty slice of that text.
C12_NeverEmptyText ==
  /\ \A k \in 1..Len(calls) :
       IsSend(calls[k]) =>
         /\ calls[k].params.text.lo < calls[k].params.text.hi
         /\ calls[k].params.text.of =
              (IF text.len = 0 THEN "(empty message)" ELSE "text")
         /\ text.len = 0 =>
              calls[k].params.text.lo = 0 /\ calls[k].params.text.hi = PlaceholderLen
  /\ (text.len = 0 /\ Returned) => Len(Sent(calls)) = 1

\* the empty text went out as the placeholder, once
C12_Witness ==
  /\ text.len = 0
  /\ Returned
  /\ Len(calls) = 1
  /\ calls[1].params.text = [of |-> "(empty message)", lo |-> 0, hi |-> PlaceholderLen]

\* ------------------------------------------------------------------------
\* C13..C16: the registry under concurrent calls (SpecRegistry)
\* ------------------------------------------------------------------------

Callers == 1..MaxCalls

\* the process has been started again
Restarted == \A k \in Callers : th[k].pc = "killed"

\* C13: every record of the store has first_seen <= last_seen; a call of add
\* that found a record for its chat id has kept that record's first_seen and
\* left a last_seen that is not below the one it found.
C13_FirstSeenBeforeLastSeen ==
  /\ \A c \in DOMAIN _data : _data[c].first_seen <= _data[c].last_seen
  /\ \A k \in Callers :
       (/\ th[k].op = "add"
        /\ th[k].pc \in SavePcs
        /\ _lock = k
        /\ "first_seen" \in DOMAIN th[k].had)
       => /\ _data[th[k].cid].first_seen = th[k].had.first_seen
          /\ _data[th[k].cid].last_seen >= th[k].had.last_seen

\* every call was an add that has returned without a save error, and no two
\* were for the same chat id
AllAdded ==
  /\ \A k \in Callers :
       th[k].pc = "returned" /\ th[k].op = "add" /\ ~th[k].save_error
  /\ \A k, m \in Callers : k # m => th[k].cid # th[m].cid

\* C14: at no time are two calls inside _save; and once MaxCalls adds of
\* distinct chat ids, made on the empty registry, have all returned without a
\* save error, the file at the final path is a whole document that holds
\* exactly their records and loads back as the store in memory.
C14_ConcurrentAddsAllSaved ==
  /\ Cardinality({k \in Callers : th[k].pc \in SavePcs}) <= 1
  /\ AllAdded =>
       /\ WellFormed(fs.path)
       /\ DOMAIN fs.path.doc = {th[k].cid : k \in Callers}
       /\ \A k \in Callers :
            fs.path.doc[th[k].cid] = [first_seen |-> th[k].now, last_seen |-> th[k].now]
       /\ _load(fs.path) = _data

\* the adds were called one after the other before either took the lock,
\* at different times
C14_Witness ==
  /\ AllAdded
  /\ th[1].now # th[MaxCalls].now
  /\ Cardinality(DOMAIN fs.path.doc) = MaxCalls

\* C15: whatever exists at the final path is a whole document, a store some
\* _save wrote out; a file written in part exists under the temp name only.
\* A process started again after dying at any step has loaded that document
\* (or the empty store when there is no file).
C15_FinalPathNeverPartial ==
  /\ fs.path.exists => (fs.path.written = "all" /\ fs.path.doc \in saved)
  /\ Restarted => _data = (IF fs.path.exists THEN fs.path.doc ELSE <<>>)

\* the process died while the second save had written part of the temp
\* file: the document of the first save is what the new process loaded
C15_Witness ==
  /\ Restarted
  /\ fs.tmp.exists /\ fs.tmp.written = "part"
  /\ fs.path.exists
  /\ fs.tmp.doc # fs.path.doc
  /\ _data = fs.path.doc

\* the store holds what call k was made for
Kept(d, call) ==
  IF call.op = "add"
    THEN call.cid \in DOMAIN d /\ d[call.cid].last_seen = call.now
    ELSE call.cid \notin DOMAIN d

\* C16: a call whose _save fails at any statement returns normally; on its
\* return the store in memory holds its change, the file at the final path
\* is the one that was there before the call changed the store, and the lock
\* is free.
C16_SaveFailureAbsorbed ==
  [][\A k \in Callers :
       (th[k].pc \in SavePcs /\ th'[k].pc = "returned" /\ th'[k].save_error)
       => /\ th'[k].outcome = "returned"
          /\ _lock' = 0
          /\ fs'.path = th[k].before
          /\ _data' = _data
          /\ Kept(_data', th[k])]_vars

\* the first call could not replace the file; the second call has since
\* taken the lock and finds the first call's record in the store
C16_Witness ==
  /\ th[1].pc = "returned" /\ th[1].save_error /\ th[1].op = "add"
  /\ fs.tmp.exists /\ fs.tmp.written = "all"
  /\ ~fs.path.exists
  /\ th[2].pc = "makedirs" /\ _lock = 2
  /\ th[2].op = "add" /\ th[2].cid = th[1].cid
  /\ "first_seen" \in DOMAIN th[2].had

\* ------------------------------------------------------------------------
\* C17..C19: POST / and the requests around it (Spec)
\* ------------------------------------------------------------------------

\* the chat id a target's messages go to: the id getChat gave for "@chan",
\* the target itself when it is numeric
Resolved(r) == IF r = StrChan THEN StrChanId ELSE r

\* the defaults that are set, first then second
StatedDefaults ==
  (IF DEFAULT_CHAT_ID # <<>> THEN <<DEFAULT_CHAT_ID>> ELSE <<>>)
  \o (IF SECOND_DEFAULT_CHAT_ID # <<>> THEN <<SECOND_DEFAULT_CHAT_ID>> ELSE <<>>)

\* a POST / is taken up in this step
Begins == pc = "idle" /\ pc' # "idle"

\* C17: a POST / whose payload has a chat_id (not blank) sends to that one
\* reference, whatever the broadcast flag, the defaults and the registry are;
\* one without sends to all ids the registry lists when broadcast is on and
\* the registry is not empty, else to the defaults that are set, first then
\* second.  The targets stay as selected, and every sendMessage goes to the
\* chat the target in hand resolves to.
C17_TargetSelection ==
  [][/\ Begins =>
          IF Truthy(chat_id_ref')
            THEN entry' = "single" /\ targets' = <<>> /\ pc' = "resolve"
          ELSE IF BROADCAST_DEFAULT /\ chats # <<>>
            THEN entry' = "many" /\ status' = "broadcast" /\ pc' = "list_ids"
          ELSE IF StatedDefaults # <<>>
            THEN /\ entry' = "many" /\ status' = "sent_to_defaults" /\ pc' = "many"
                 /\ targets' = StatedDefaults
          ELSE pc' = "done" /\ targets' = <<>>
     /\ (pc = "list_ids" /\ pc' # "list_ids") => targets' = chats
     /\ pc \in {"many", "resolve", "getChat", "send", "retry"} => targets' = targets
     /\ \A k \in 1..Len(calls') :
          IsSend(calls'[k]) =>
            /\ calls'[k].params.chat_id \in
                 {Resolved(r) : r \in (IF entry' = "many" THEN Range(targets')
                                                        ELSE {chat_id_ref'})}
            /\ pc' \in {"send", "retry"} =>
                 calls'[k].params.chat_id = Resolved(IF entry' = "many"
                                                      THEN targets'[t'] ELSE chat_id_ref')
    ]_vars

\* broadcast on, both defaults set, one chat registered: the message went to
\* the registered chat and the request was answered
C17_Witness ==
  /\ pc = "done"
  /\ status = "broadcast"
  /\ DEFAULT_CHAT_ID = StrChan /\ SECOND_DEFAULT_CHAT_ID = Str123
  /\ targets = <<Str555>>
  /\ calls # <<>>
  /\ \A k \in 1..Len(calls) : IsSend(calls[k]) /\ calls[k].params.chat_id = Str555
  /\ IsOk(response.results[Str555])

\* the answer of a POST / that found no target at all
Refused ==
  [status_code |-> 400, ok |-> FALSE, error |-> "HTTPException", detail |-> NoTarget]

\* C18: a POST / without chat_id, taken up when neither default is set and
\* broadcast is off or the registry is empty, is answered at once with the
\* 400 whose detail says that no chat id is to be had; nothing is asked
\* upstream for it, then or after.
C18_NoTargetRefused ==
  [][/\ (/\ Begins
          /\ ~Truthy(chat_id_ref')
          /\ DEFAULT_CHAT_ID = <<>> /\ SECOND_DEFAULT_CHAT_ID = <<>>
          /\ (~BROADCAST_DEFAULT \/ chats = <<>>))
         => /\ pc' = "done"
            /\ response' = Refused
            /\ calls' = <<>>
            /\ deliveries' = <<>>
     /\ (pc = "done" /\ response = Refused) => (calls' = <<>> /\ pc' \in {"done", "idle"})
    ]_vars

\* broadcast is on but no chat is registered
C18_Witness ==
  /\ pc = "done"
  /\ response = Refused
  /\ BROADCAST_DEFAULT
  /\ chats = <<>>
  /\ calls = <<>>

\* a POST / has been taken up and its upstream request is out
Waiting == pc \in {"getChat", "send", "retry"}

\* C19: while a POST / waits for its upstream request, another POST / and
\* a POST /webhook can be taken up, and so can a POST /chats as long as
\* the registry has room.
C19_OthersProgressWhileWaiting ==
  Waiting =>
    /\ ENABLED (\E v \in PayloadChatIds, n \in HandleLens, pm \in PayloadModes :
                  handle(v, n, pm))
    /\ ENABLED (\E n \in 1..Len(WebhookIds) : telegram_webhook(WebhookIds[n]))
    /\ Len(chats) < MaxChats => ENABLED (\E v \in AddChatIds : add_chat(v))

\* ------------------------------------------------------------------------
\* C20: extract_text (SpecExtract)
\* ------------------------------------------------------------------------

\* the candidate keys, the primary key first
Candidates == <<"text", "message", "content", "raw", "analysis", "html", "markdown">>

\* the document holds a string under key k that is not empty once trimmed
NonEmptyString(k) ==
  /\ k \in DOMAIN data
  /\ "str" \in DOMAIN data[k]
  /\ \E p \in 1..Len(data[k].str) : data[k].str[p] # " "

\* s without the blanks at its ends
Trimmed(s) ==
  LET solid == {p \in 1..Len(s) : s[p] # " "}
      lo == CHOOSE p \in solid : \A q \in solid : p <= q
      hi == CHOOSE p \in solid : \A q \in solid : q <= p
  IN SubSeq(s, lo, hi)

\* the document has a "messages" / "outputs" list that yields a part
UsableMessages ==
  /\ "messages" \in DOMAIN data
  /\ "list" \in DOMAIN data["messages"]
  /\ message_parts(data["messages"].list) # <<>>
UsableOutputs ==
  /\ "outputs" \in DOMAIN data
  /\ "list" \in DOMAIN data["outputs"]
  /\ output_parts(data["outputs"].list) # <<>>

\* C20: a non-empty string under "text" is returned trimmed whatever else
\* the document holds; else the string of the first later candidate key that
\* holds a non-empty one (values that are no strings or only blanks are
\* passed over); else the parts of the "messages" list, one per line; else
\* the "value" parts of the "outputs" list, a blank line between them; else
\* the pretty-printed JSON of the document.  The result is never empty.
C20_FirstMatchWins ==
  extracted # NotCalled =>
    /\ extracted # <<>>
    /\ NonEmptyString("text") => extracted = Trimmed(data["text"].str)
    /\ \A n \in 1..Len(Candidates) :
         (/\ NonEmptyString(Candidates[n])
          /\ \A m \in 1..(n - 1) : ~NonEmptyString(Candidates[m]))
         => extracted = Trimmed(data[Candidates[n]].str)
    /\ (\A n \in 1..Len(Candidates) : ~NonEmptyString(Candidates[n])) =>
         IF UsableMessages
           THEN extracted = join(message_parts(data["messages"].list), <<NL>>)
         ELSE IF UsableOutputs
           THEN extracted = join(output_parts(data["outputs"].list), <<NL, NL>>)
         ELSE extracted = _as_json(Dict(data))

\* " hi " under "text" wins over "m" under "message" and over both lists
C20_Witness ==
  /\ extracted = <<"h", "i">>
  /\ NonEmptyString("message")
  /\ UsableMessages
  /\ UsableOutputs

\* ------------------------------------------------------------------------
\* C21: the fallback is per chunk (SpecSend)
\* ------------------------------------------------------------------------

\* C21: when a chunk failed on its formatting with a parse_mode and was then
\* accepted without one, the request that follows is the first attempt of
\* the next chunk and carries the same parse_mode again; and as long as the
\* next chunk has not been asked for, it is the one the loop is about to
\* send.
C21_FallbackPerChunk ==
  \A k \in 2..Len(calls) :
    (/\ FormatFailure(calls[k - 1]) /\ HasMode(calls[k - 1])
     /\ IsSend(calls[k]) /\ Accepted(calls[k]))
    => /\ ~HasMode(calls[k])
       /\ k < Len(calls) =>
            /\ IsSend(calls[k + 1])
            /\ calls[k + 1].params.text.lo = calls[k].params.text.hi
            /\ HasMode(calls[k + 1])
            /\ calls[k + 1].params.parse_mode = calls[k - 1].params.parse_mode
       /\ (k = Len(calls) /\ calls[k].params.text.hi < SafeLen) =>
            /\ pc = "send"
            /\ i = calls[k].params.text.hi
            /\ Truthy(effective_parse_mode(parse_mode))

\* the first chunk went out without HTML after the retry, the second with it
C21_Witness ==
  /\ Returned
  /\ Len(calls) = 3
  /\ FormatFailure(calls[1]) /\ calls[1].params.parse_mode = HTML
  /\ Accepted(calls[2]) /\ ~HasMode(calls[2])
  /\ Accepted(calls[3]) /\ calls[3].params.parse_mode = HTML
  /\ calls[3].params.text.lo = MAX

\* ------------------------------------------------------------------------
\* C22: a "broadcast" answer and the registry ids it went to (Spec)
\* ------------------------------------------------------------------------

\* POST / has its answer with status "broadcast"
Broadcast ==
  /\ pc = "done"
  /\ "status" \in DOMAIN response
  /\ response.status = "broadcast"

\* C22: whenever POST / answers with status "broadcast", the targets it read
\* from the registry are not empty, a delivery was attempted to each of them
\* and the results mapping has an entry for each, so it is not empty, with
\* DELETE /chats, POST /chats and POST /webhook interleaved in any way.
C22_BroadcastHasTargets ==
  Broadcast =>
    /\ targets # <<>>
    /\ deliveries # <<>>
    /\ response.results # <<>>
    /\ DOMAIN response.results = Range(targets)
    /\ \A c \in Range(targets) : \E n \in 1..Len(deliveries) : deliveries[n].ref = c

\* ------------------------------------------------------------------------
\* C23: the file follows the store; remove of an absent id (SpecRegistry)
\* ------------------------------------------------------------------------

\* no call of this process has had its _save fail
NoSaveFailed == \A k \in Callers : ~th[k].save_error

\* a call of add has returned: the store has been changed
AddReturned == \E k \in Callers : th[k].op = "add" /\ th[k].pc = "returned"

\* with the lock free and no save failed, the final path holds the store
InSync ==
  (_lock = 0 /\ NoSaveFailed) =>
    IF fs.path.exists
      THEN WellFormed(fs.path) /\ fs.path.doc = _data
      ELSE _data = <<>> /\ ~AddReturned

\* call k, a remove, goes past line 96 and finds no record for its chat id
RemoveOfAbsent(k) ==
  /\ th[k].op = "remove"
  /\ th[k].pc = "mutate"
  /\ th[k].cid \notin DOMAIN _data
  /\ th'[k].pc \notin {"mutate", "killed"}

\* C23: in every state where no call holds the lock and no save has failed,
\* the document at the registry file path is the store in memory, and there
\* is no file only while the store is empty and no add has returned; a
\* remove whose chat id has no record leaves the store and the files as they
\* are and returns normally, without a save, letting the lock go.
C23_FileEqualsStore ==
  /\ []InSync
  /\ [][\A k \in Callers :
          RemoveOfAbsent(k)
          => /\ _data' = _data
             /\ fs' = fs
             /\ th'[k].pc = "returned"
             /\ th'[k].outcome = "returned"
             /\ ~th'[k].save_error
             /\ _lock' = 0]_vars

\* an add has been saved and a remove of another, absent id has returned:
\* the file still holds the one record
C23_Witness ==
  /\ _lock = 0
  /\ NoSaveFailed
  /\ AddReturned
  /\ \E k \in Callers :
       /\ th[k].op = "remove" /\ th[k].pc = "returned"
       /\ th[k].cid \notin DOMAIN _data
  /\ _data # <<>>
  /\ WellFormed(fs.path)
  /\ fs.path.doc = _data

====
